---- MODULE Spec2Model ----
(***************************************************************************)
(* Model of the two request handlers of the tourist-assistance service:    *)
(*   functions/ai-guide/src/lambda_function.py        (text path)          *)
(*   functions/vision-recognize/attraction-scanner.py (vision path)        *)
(* Text and bytes are sequences of one-character strings. Pure functions   *)
(* are operators computed the way the code computes them; every component  *)
(* has its own specification over its own variables.                       *)
(***************************************************************************)
EXTENDS Integers, Sequences, FiniteSets, TLC

VARIABLES
    san_in, san_out, san_done,
    tmp_env, tmp_persona, tmp_out, tmp_done,
    res_catalog, res_reply, res_out, res_done,
    cit_in, cit_out, cit_done,
    mp_parts, mp_body, mp_out, mp_done,
    h_pc, h_path, h_event, h_loc, h_gen, h_tr, h_cls, h_resp,
    LANDMARKS, DRY_RUN

\* ------------------------------------------------------------------------
\* Text helpers (Python str / bytes primitives used by both files)
\* ------------------------------------------------------------------------

\* the grave accent (markdown inline-code marker), which a TLA+ string literal
\* cannot hold: one element of a text, like every other character
Backtick == "GRAVE"

UpperChars == <<"A","B","C","D","E","F","G","H","I","J","K","L","M",
                "N","O","P","Q","R","S","T","U","V","W","X","Y","Z">>

LowerChars == <<"a","b","c","d","e","f","g","h","i","j","k","l","m",
                "n","o","p","q","r","s","t","u","v","w","x","y","z">>

\* str.lower() on one character
LowerChar(c) ==
    IF \E i \in 1..26 : UpperChars[i] = c
    THEN LowerChars[CHOOSE i \in 1..26 : UpperChars[i] = c]
    ELSE c

\* str.lower()
Lower(s) == [i \in 1..Len(s) |-> LowerChar(s[i])]

\* the characters str.strip() / bytes.strip() / regex \s remove
IsSpace(c) == c \in {" ", "\n", "\r", "\t"}

MinOf(S) == CHOOSE m \in S : \A n \in S : m <= n

MaxOf(S) == CHOOSE m \in S : \A n \in S : n <= m

\* s[a-1:b] of Python, 1-based and inclusive, empty when b < a
Slice(s, a, b) == IF b < a THEN <<>> ELSE SubSeq(s, a, b)

\* s.startswith(p, i-1)
MatchAt(p, s, i) ==
    /\ i >= 1
    /\ i + Len(p) - 1 <= Len(s)
    /\ \A k \in 1..Len(p) : s[i + k - 1] = p[k]

\* s.find(p, from-1) + 1: the first index >= from where p occurs, 0 if none
Find(p, s, from) ==
    LET hits == {i \in from..(Len(s) - Len(p) + 1) : MatchAt(p, s, i)}
    IN  IF hits = {} THEN 0 ELSE MinOf(hits)

\* the first index >= i that is not whitespace (Len(s)+1 if none): regex \s*
SkipSpace(s, i) ==
    MinOf({j \in i..(Len(s) + 1) : j = Len(s) + 1 \/ ~IsSpace(s[j])})

\* the first index >= i whose character is not in cs (Len(s)+1 if none)
SkipChars(s, i, cs) ==
    MinOf({j \in i..(Len(s) + 1) : j = Len(s) + 1 \/ s[j] \notin cs})

\* the first index >= i whose character is in cs (Len(s)+1 if none)
SkipCharsNot(s, i, cs) ==
    MinOf({j \in i..(Len(s) + 1) : j = Len(s) + 1 \/ s[j] \in cs})

\* str.strip(): leading and trailing whitespace removed
Strip(s) ==
    LET keep == {i \in 1..Len(s) : ~IsSpace(s[i])}
    IN  IF keep = {} THEN <<>> ELSE SubSeq(s, MinOf(keep), MaxOf(keep))

\* bytes.rstrip(chars): trailing characters of cs removed
RStripChars(s, cs) ==
    LET keep == {i \in 1..Len(s) : s[i] \notin cs}
    IN  IF keep = {} THEN <<>> ELSE SubSeq(s, 1, MaxOf(keep))

\* str.replace(p, r): non-overlapping occurrences of p, left to right
RECURSIVE ReplaceFrom(_, _, _, _)
ReplaceFrom(s, p, r, i) ==
    IF i > Len(s) THEN <<>>
    ELSE IF MatchAt(p, s, i) THEN r \o ReplaceFrom(s, p, r, i + Len(p))
    ELSE <<s[i]>> \o ReplaceFrom(s, p, r, i + 1)

Replace(s, p, r) == ReplaceFrom(s, p, r, 1)

\* ------------------------------------------------------------------------
\* TextSanitizer: lambda_function.py, CLEANUP section
\* ------------------------------------------------------------------------

OutOpen == <<"<","o","u","t",">">>

OutClose == <<"<","/","o","u","t",">">>

\* NOISE_RE alternatives, lower-cased (the pattern is IGNORECASE)
NoiseTokens ==
    { <<"<","s","y","s",">">>, <<"<","/","s","y","s",">">>,
      <<"<","i","n","s","t",">">>, <<"<","/","i","n","s","t",">">>,
      <<"[","s","y","s","]">>, <<"[","/","s","y","s","]">>,
      <<"[","/","i","n","s","t","]">> }

\* NOISE_RE.sub("", text), scanning from index i
RECURSIVE NoiseSubFrom(_, _)
NoiseSubFrom(s, i) ==
    IF i > Len(s) THEN <<>>
    ELSE LET hit == {t \in NoiseTokens : MatchAt(t, Lower(s), i)}
         IN  IF hit # {}
             THEN NoiseSubFrom(s, i + Len(CHOOSE t \in hit : TRUE))
             ELSE <<s[i]>> \o NoiseSubFrom(s, i + 1)

\* HTML_TAG_RE.sub("", text): "<", one or more characters other than ">", ">"
RECURSIVE HtmlSubFrom(_, _)
HtmlSubFrom(s, i) ==
    IF i > Len(s) THEN <<>>
    ELSE LET close == Find(<<">">>, s, i + 1)
         IN  IF s[i] = "<" /\ close > i + 1
             THEN HtmlSubFrom(s, close + 1)
             ELSE <<s[i]>> \o HtmlSubFrom(s, i + 1)

_clean_noise(text) ==
    IF text = <<>> THEN text
    ELSE Strip(HtmlSubFrom(NoiseSubFrom(text, 1), 1))

_extract_out(text) ==
    IF text = <<>> THEN <<>>
    ELSE LET low   == Lower(text)
             open  == Find(OutOpen, low, 1)
             close == IF open = 0 THEN 0 ELSE Find(OutClose, low, open + Len(OutOpen))
             end   == Find(OutClose, low, 1)
         IN  IF open # 0 /\ close # 0
             THEN Strip(Slice(text, open + Len(OutOpen), close - 1))
             ELSE IF end # 0 THEN Strip(Slice(text, 1, end - 1))
             ELSE Strip(text)

LabelWords == { <<"o","u","t","p","u","t">>, <<"n","o","t","e">> }

\* the part of DANGEROUS_SECTIONS_RE after (?:^|\n), matched at index q of the
\* lower-cased text: \s* then </out>, or up to two "*", \s*, the word, \s*, ":"
LabelFrom(low, q) ==
    LET a == SkipSpace(low, q)
    IN  \/ MatchAt(OutClose, low, a)
        \/ \E k \in 0..2 : \E w \in LabelWords :
              /\ \A j \in a..(a + k - 1) : j <= Len(low) /\ low[j] = "*"
              /\ LET b == SkipSpace(low, a + k)
                     c == SkipSpace(low, b + Len(w))
                 IN  /\ MatchAt(w, low, b)
                     /\ c <= Len(low)
                     /\ low[c] = ":"

\* DANGEROUS_SECTIONS_RE.sub("", text).strip(): the first match runs to the end
\* of the text (.*$ under DOTALL), so everything from its start is dropped
_strip_after_markers(text) ==
    LET low    == Lower(text)
        starts == {p \in 1..(Len(text) + 1) :
                      \/ p = 1 /\ LabelFrom(low, 1)
                      \/ p <= Len(text) /\ low[p] = "\n" /\ LabelFrom(low, p + 1)}
    IN  IF starts = {} THEN Strip(text)
        ELSE Strip(Slice(text, 1, MinOf(starts) - 1))

\* re.sub(r"^[ \t]*#{1,6}\s*", "", t, flags=re.MULTILINE), scanning from index i
RECURSIVE HeadingSubFrom(_, _)
HeadingSubFrom(s, i) ==
    IF i > Len(s) THEN <<>>
    ELSE LET a    == SkipChars(s, i, {" ", "\t"})
             h    == SkipChars(s, a, {"#"})
             hEnd == IF h - a > 6 THEN a + 6 ELSE h
         IN  IF (i = 1 \/ s[i - 1] = "\n") /\ h > a
             THEN HeadingSubFrom(s, SkipSpace(s, hEnd))
             ELSE <<s[i]>> \o HeadingSubFrom(s, i + 1)

_strip_markdown_symbols(text) ==
    LET t1 == Replace(text, <<"|">>, <<" ">>)
        t2 == Replace(Replace(t1, <<"*","*">>, <<>>), <<"*">>, <<>>)
        t3 == Replace(t2, <<Backtick>>, <<>>)
    IN  HeadingSubFrom(t3, 1)

\* re.sub(r"\n{3,}", "\n\n", t), scanning from index i
RECURSIVE CollapseFrom(_, _)
CollapseFrom(s, i) ==
    IF i > Len(s) THEN <<>>
    ELSE LET e == SkipChars(s, i, {"\n"})
         IN  IF e - i >= 3
             THEN <<"\n", "\n">> \o CollapseFrom(s, e)
             ELSE <<s[i]>> \o CollapseFrom(s, i + 1)

_final_sanitize(text) ==
    LET t1 == _extract_out(text)
        t2 == _strip_after_markers(t1)
        t3 == _clean_noise(t2)
        t4 == _strip_markdown_symbols(t3)
    IN  Strip(CollapseFrom(t4, 1))

\* Raw completions: up to MaxFrags pieces a model completion is made of
MaxFrags == 3

Frags ==
    { <<"x">>, <<" ">>, <<"\n">>, <<"*">>, <<Backtick>>, <<"#">>, <<"|">>,
      <<"<","b",">">>, <<"<","o","u","t",">">>, <<"<","/","O","U","T",">">>,
      <<"N","o","t","e",":">>, <<"n","o">>, <<"t","e",":">>,
      <<"O","U","T","P","U","T"," ",":">>,
      <<"[","/","I","N","S","T","]">>, <<"[">>, <<"/","I","N","S","T","]">> }

RECURSIVE Completions(_)
Completions(n) ==
    IF n = 0 THEN {<<>>}
    ELSE LET shorter == Completions(n - 1)
         IN  shorter \cup {c \o f : c \in shorter, f \in Frags}

SanInit ==
    /\ san_in = <<>>
    /\ san_out = <<>>
    /\ san_done = FALSE

\* cleaned_ru = _final_sanitize(raw_answer_ru)
Sanitize ==
    /\ ~san_done
    /\ \E raw \in Completions(MaxFrags) :
          /\ san_in' = raw
          /\ san_out' = _final_sanitize(raw)
    /\ san_done' = TRUE

san_vars == <<san_in, san_out, san_done>>


\* a line of t starts at index q and begins, after optional whitespace and
\* optional emphasis symbols, with a case-insensitive "note:" or "output:" label
LabelLineAt(t, q) ==
    LET low == Lower(t)
        a   == SkipChars(low, SkipSpace(low, q), {"*"})
        b   == SkipSpace(low, a)
    IN  /\ q = 1 \/ t[q - 1] = "\n"
        /\ \E w \in LabelWords :
              /\ MatchAt(w, low, b)
              /\ SkipSpace(low, b + Len(w)) <= Len(low)
              /\ low[SkipSpace(low, b + Len(w))] = ":"

HasLabelLine(t) == \E q \in 1..Len(t) : LabelLineAt(t, q)

\* C5: the output of _final_sanitize contains no line that begins (after
\* optional whitespace and emphasis symbols) with a "note:" or "output:" label,
\* whatever the raw completion was.
C5_NoLabelLineInOutput == san_done => ~HasLabelLine(san_out)

\* C6: _final_sanitize is idempotent: sanitizing an already sanitized answer
\* changes nothing.
C6_SanitizeIdempotent == san_done => _final_sanitize(san_out) = san_out

\* ------------------------------------------------------------------------
\* PersonaPolicy: lambda_function.py, ENV and Persona helpers
\* Temperatures are in hundredths (0.3 is 30), so the arithmetic is exact.
\* ------------------------------------------------------------------------

\* Python's None where a text is expected
PyNone == <<"None">>

\* (x or ""): None and the empty text are both falsy
OrEmpty(x) == IF x = PyNone THEN <<>> ELSE x

\* the default of _env_float("LLAMA_TEMPERATURE", 0.3)
DefaultTemp == 30

\* max(0.1, ...)
TempFloor == 10

\* min(1.0, ...)
TempCeil == 100

FormalDelta == 15

HumorousDelta == 40

FriendlyDelta == 20

\* float(os.getenv(name, str(default))), the default on any exception
_env_float(env, default) ==
    IF env.kind = "float" THEN env.v ELSE default

BASE_TEMP == _env_float(tmp_env, DefaultTemp)

Formal == <<"f","o","r","m","a","l">>

Humorous == <<"h","u","m","o","r","o","u","s">>

Friendly == <<"f","r","i","e","n","d","l","y">>

_persona_temperature(base, persona) ==
    LET p == Strip(Lower(OrEmpty(persona)))
    IN  IF p = Formal
        THEN IF base - FormalDelta > TempFloor THEN base - FormalDelta ELSE TempFloor
        ELSE IF p = Humorous
        THEN IF base + HumorousDelta < TempCeil THEN base + HumorousDelta ELSE TempCeil
        ELSE IF base + FriendlyDelta < TempCeil THEN base + FriendlyDelta ELSE TempCeil

_persona_or_default(p0) ==
    LET p == Strip(Lower(OrEmpty(p0)))
    IN  IF p \in {Friendly, Formal, Humorous} THEN p ELSE Friendly

\* LLAMA_TEMPERATURE values: multiples of 0.05 up to MaxBaseSteps steps either
\* side of zero, besides the variable being unset or not a number
MaxBaseSteps == 40

EnvValues ==
    {[kind |-> "unset", v |-> 0], [kind |-> "garbage", v |-> 0]}
    \cup {[kind |-> "float", v |-> 5 * k] : k \in (0 - MaxBaseSteps)..MaxBaseSteps}

PersonaInputs ==
    { PyNone, <<>>, Formal, Humorous, Friendly,
      <<" ","F","o","r","m","a","l"," ">>,
      <<"H","U","M","O","R","O","U","S">>,
      <<"p","i","r","a","t","e">> }

TempInit ==
    /\ tmp_env = [kind |-> "unset", v |-> 0]
    /\ tmp_persona = PyNone
    /\ tmp_out = 0
    /\ tmp_done = FALSE

\* module load (BASE_TEMP) followed by _persona_temperature(BASE_TEMP, persona)
Temperature ==
    /\ ~tmp_done
    /\ \E env \in EnvValues : \E persona \in PersonaInputs :
          /\ tmp_env' = env
          /\ tmp_persona' = persona
          /\ tmp_out' = _persona_temperature(_env_float(env, DefaultTemp), persona)
    /\ tmp_done' = TRUE

tmp_vars == <<tmp_env, tmp_persona, tmp_out, tmp_done>>


\* C7: for every base temperature the environment can configure and every
\* persona input, the returned temperature lies in [0.1, 1.0]; with base 0.3
\* it is 0.15 for formal, 0.70 for humorous, 0.50 for friendly or unrecognized.
C7_TemperatureInBand ==
    tmp_done =>
        /\ TempFloor <= tmp_out /\ tmp_out <= TempCeil
        /\ BASE_TEMP = 30 =>
              tmp_out = (IF Strip(Lower(OrEmpty(tmp_persona))) = Formal THEN 15
                         ELSE IF Strip(Lower(OrEmpty(tmp_persona))) = Humorous THEN 70
                         ELSE 50)

\* ------------------------------------------------------------------------
\* LandmarkResolver: attraction-scanner.py, classify_with_llama
\* Confidences are in hundredths (0.92 is 92).
\* ------------------------------------------------------------------------

\* needle in haystack (Python's substring test)
Contains(haystack, needle) ==
    \E i \in 1..(Len(haystack) - Len(needle) + 1) : MatchAt(needle, haystack, i)

NoneId == <<"n","o","n","e">>

\* the results of classify_with_llama: None, a detection, or an exception
NoDetection == [kind |-> "none", id |-> <<>>, confidence |-> 0]

Raised == [kind |-> "raise", id |-> <<>>, confidence |-> 0]

Detection(id, conf) == [kind |-> "det", id |-> id, confidence |-> conf]

\* The reply of bedrock.converse as the handler reads it: the call raised
\* ("raise"); the text holds no {"id": "...", "confidence": n} fragment
\* ("nojson"); it holds one whose number float() rejects ("badconf"); or it
\* holds one with the id group(1) and the confidence float(group(2)) ("json").
\* Every outcome classify_with_llama can have on a reply: the fallback loop
\* runs over known_ids, a Python set of str, whose iteration order is fixed by
\* the per-process string hash seed and not by the catalog, so each contained
\* id is a possible result.
ClassifyOutcomes(landmarks, reply) ==
    IF landmarks = <<>> THEN {NoDetection}
    ELSE IF reply.kind = "raise" THEN {Raised}
    ELSE IF reply.kind = "nojson" THEN {NoDetection}
    ELSE IF reply.kind = "badconf" THEN {Raised}
    ELSE LET det_id    == Strip(reply.id)
             det_low   == Lower(det_id)
             known_ids == {landmarks[i].id : i \in 1..Len(landmarks)}
             hits      == {kid \in known_ids : Contains(det_low, kid)}
         IN  IF det_low = NoneId THEN {NoDetection}
             ELSE IF det_id \in known_ids THEN {Detection(det_id, reply.confidence)}
             ELSE IF hits = {} THEN {NoDetection}
             ELSE {Detection(kid, reply.confidence) : kid \in hits}

\* Catalogs (LANDMARKS_JSON): up to MaxCatalog entries with distinct ids
MaxCatalog == 3

CatalogIds == { <<"b","a","y","t","e","r","e","k">>, <<"k","h","a","n">>, <<"t","o","w","e","r">>, <<"E","x","p","o">> }

RECURSIVE CatalogsOf(_)
CatalogsOf(n) ==
    IF n = 0 THEN {<<>>}
    ELSE LET shorter == CatalogsOf(n - 1)
         IN  shorter \cup
             {Append(c, [id |-> k]) : c \in shorter, k \in CatalogIds}

Catalogs ==
    {c \in CatalogsOf(MaxCatalog) :
        \A i, j \in 1..Len(c) : i # j => c[i].id # c[j].id}

RawIds ==
    { <<"b","a","y","t","e","r","e","k">>, <<"B","a","y","t","e","r","e","k","_","T","O","W","E","R","!","!">>, <<"k","h","a","n"," ","t","o","w","e","r">>, <<" ","k","h","a","n"," ">>, <<"n","o","n","e">>, <<"N","O","N","E">>,
      <<" ","N","o","n","e">>, <<"n","o","n","e","x","i","s","t","e","n","t">>, <<"e","x","p","o">>, <<"E","x","p","o">>, <<"z","o","o">> }

Replies ==
    {[kind |-> k, id |-> <<>>, confidence |-> 0] : k \in {"raise", "nojson", "badconf"}}
    \cup {[kind |-> "json", id |-> r, confidence |-> c] : r \in RawIds, c \in {69, 70, 92}}

ResInit ==
    /\ res_catalog = <<>>
    /\ res_reply = [kind |-> "nojson", id |-> <<>>, confidence |-> 0]
    /\ res_out = NoDetection
    /\ res_done = FALSE

\* det = classify_with_llama(img_bytes, fmt, LANDMARKS)
Classify ==
    /\ ~res_done
    /\ \E catalog \in Catalogs : \E reply \in Replies :
          /\ res_catalog' = catalog
          /\ res_reply' = reply
          /\ res_out' \in ClassifyOutcomes(catalog, reply)
    /\ res_done' = TRUE

res_vars == <<res_catalog, res_reply, res_out, res_done>>

\* the ids of the catalog contained in the lower-cased raw id, in catalog order
ContainedAt(catalog, raw) ==
    {i \in 1..Len(catalog) : Contains(Lower(raw), catalog[i].id)}

\* C10: resolution is deterministic and ordered: "none" (any case) and a raw id
\* containing no catalog id give no detection; a raw id equal to a catalog id
\* resolves to it; otherwise the first catalog id, in catalog order, contained
\* in the lower-cased raw id is returned on every run.
C10_ResolutionOrdered ==
    (res_done /\ res_reply.kind = "json" /\ res_catalog # <<>>) =>
        LET raw == Strip(res_reply.id)
            ids == {res_catalog[i].id : i \in 1..Len(res_catalog)}
            at  == ContainedAt(res_catalog, raw)
        IN  IF Lower(raw) = NoneId THEN res_out = NoDetection
            ELSE IF raw \in ids THEN res_out = Detection(raw, res_reply.confidence)
            ELSE IF at = {} THEN res_out = NoDetection
            ELSE res_out = Detection(res_catalog[MinOf(at)].id, res_reply.confidence)

\* ------------------------------------------------------------------------
\* CitationExtractor: lambda_function.py, _extract_citations
\* The retrieval response is a JSON value: a record tagged by its Python
\* type. A text is its name and its length n.
\* ------------------------------------------------------------------------

JNull == [t |-> "null"]

JStr(name, n) == [t |-> "str", v |-> name, n |-> n]

JNum(k) == [t |-> "num", v |-> k]

JList(items) == [t |-> "list", v |-> items]

JDict(fields) == [t |-> "dict", v |-> fields]

\* the value of an expression whose evaluation raised
JExc == [t |-> "exc"]

EmptyStr == JStr("", 0)

EmptyDict == JDict(<<>>)

EmptyList == JList(<<>>)

\* a key the dict does not hold (used to build dicts only)
Absent == [t |-> "absent"]

Opt(k, v) == IF v = Absent THEN <<>> ELSE (k :> v)

\* d.get(k, dflt): AttributeError unless d is a dict
Get(d, k, dflt) ==
    IF d.t # "dict" THEN JExc
    ELSE IF k \in DOMAIN d.v THEN d.v[k]
    ELSE dflt

\* bool(x)
Truthy(x) ==
    CASE x.t = "str"  -> x.n > 0
      [] x.t = "num"  -> x.v # 0
      [] x.t = "list" -> x.v # <<>>
      [] x.t = "dict" -> DOMAIN x.v # {}
      [] OTHER        -> FALSE

\* what "for item in x" visits: the elements of a list, the keys of a dict,
\* the characters of a str; TypeError for None and numbers
Iterate(x) ==
    CASE x.t = "list" -> [exc |-> FALSE, items |-> x.v]
      [] x.t = "dict" ->
            [exc |-> FALSE, items |-> [i \in 1..Cardinality(DOMAIN x.v) |-> JStr("key", 1)]]
      [] x.t = "str"  -> [exc |-> FALSE, items |-> [i \in 1..x.n |-> JStr("char", 1)]]
      [] OTHER        -> [exc |-> TRUE, items |-> <<>>]

\* frag[:600]
SnippetMax == 600

\* x[:600]: a prefix of a str; TypeError for None, numbers and dicts
Slice600(x) ==
    CASE x.t = "str"  -> JStr(x.v, IF x.n > SnippetMax THEN SnippetMax ELSE x.n)
      [] x.t = "list" -> JList(Slice(x.v, 1, IF Len(x.v) > SnippetMax THEN SnippetMax ELSE Len(x.v)))
      [] OTHER        -> JExc

\* ref.get("location", {}).get("s3Location", {}).get("uri")
\*   or ref.get("location", {}).get("webLocation", {}).get("url") or ""
RefUri(ref) ==
    LET s3  == Get(Get(Get(ref, "location", EmptyDict), "s3Location", EmptyDict), "uri", JNull)
        web == Get(Get(Get(ref, "location", EmptyDict), "webLocation", EmptyDict), "url", JNull)
    IN  IF s3 = JExc THEN JExc
        ELSE IF Truthy(s3) THEN s3
        ELSE IF web = JExc THEN JExc
        ELSE IF Truthy(web) THEN web
        ELSE EmptyStr

\* ref.get("content", {}).get("text", "")
RefFrag(ref) == Get(Get(ref, "content", EmptyDict), "text", EmptyStr)

\* the outcome of a loop body or loop: it raised, or it appended these cites
Appended(cites) == [exc |-> FALSE, cites |-> cites]

Raises == [exc |-> TRUE, cites |-> <<>>]

\* one pass of a "for ref in ..." body
RefStep(ref) ==
    LET uri  == RefUri(ref)
        frag == RefFrag(ref)
    IN  IF uri = JExc \/ frag = JExc THEN Raises
        ELSE IF ~Truthy(uri) THEN Appended(<<>>)
        ELSE IF Slice600(frag) = JExc THEN Raises
        ELSE Appended(<<[uri |-> uri, snippet |-> Slice600(frag)]>>)

\* outcome a, then outcome b, unless one of them raised
Then(a, b) ==
    IF a.exc \/ b.exc THEN Raises ELSE Appended(a.cites \o b.cites)

\* "for ref in refs:" over the value refs
RECURSIVE RefSteps(_, _)
RefSteps(items, i) ==
    IF i > Len(items) THEN Appended(<<>>)
    ELSE Then(RefStep(items[i]), RefSteps(items, i + 1))

RefLoop(refs) ==
    IF refs = JExc \/ Iterate(refs).exc THEN Raises
    ELSE RefSteps(Iterate(refs).items, 1)

\* "for prov in c.get("generatedResponsePart", {}).get("citations", []):"
RECURSIVE ProvSteps(_, _)
ProvSteps(items, i) ==
    IF i > Len(items) THEN Appended(<<>>)
    ELSE Then(RefLoop(Get(items[i], "retrievedReferences", EmptyList)),
              ProvSteps(items, i + 1))

ProvLoop(provs) ==
    IF provs = JExc \/ Iterate(provs).exc THEN Raises
    ELSE ProvSteps(Iterate(provs).items, 1)

\* one pass of the "for c in ..." body: the nested loop, then the flat loop
RecordStep(c) ==
    Then(ProvLoop(Get(Get(c, "generatedResponsePart", EmptyDict), "citations", EmptyList)),
         RefLoop(Get(c, "retrievedReferences", EmptyList)))

RECURSIVE RecordSteps(_, _)
RecordSteps(items, i) ==
    IF i > Len(items) THEN Appended(<<>>)
    ELSE Then(RecordStep(items[i]), RecordSteps(items, i + 1))

RecordLoop(records) ==
    IF records = JExc \/ Iterate(records).exc THEN Raises
    ELSE RecordSteps(Iterate(records).items, 1)

\* cites[:8]
CiteCap == 8

\* the fallback taken whenever the response has the top-level list
UseTopLevelAlways(cites, rag_response) ==
    "retrievedReferences" \in DOMAIN rag_response.v

\* "if not cites and "retrievedReferences" in rag_response:"
UseTopLevel(cites, rag_response) ==
    cites = <<>> /\ "retrievedReferences" \in DOMAIN rag_response.v

_extract_citations(rag_response) ==
    LET nested == RecordLoop(Get(rag_response, "citations", EmptyList))
        top    == IF nested.exc THEN Raises
                  ELSE IF UseTopLevel(nested.cites, rag_response)
                  THEN RefLoop(Get(rag_response, "retrievedReferences", EmptyList))
                  ELSE Appended(<<>>)
        all    == Then(nested, top)
    IN  IF all.exc THEN Raises
        ELSE Appended(Slice(all.cites, 1,
                            IF Len(all.cites) > CiteCap THEN CiteCap ELSE Len(all.cites)))

\* --- retrieval responses the extractor is applied to ---

S3(uri) == JDict("uri" :> uri)

Web(url) == JDict("url" :> url)

Loc(s3, web) == JDict(Opt("s3Location", s3) @@ Opt("webLocation", web))

Text(t) == JDict("text" :> t)

Ref(loc, content) == JDict(Opt("location", loc) @@ Opt("content", content))

Prov(refs) == JDict(Opt("retrievedReferences", refs))

GP(provs) == JDict("citations" :> JList(provs))

Rec(gp, refs) == JDict(Opt("generatedResponsePart", gp) @@ Opt("retrievedReferences", refs))

Resp(cits, top) == JDict(Opt("citations", cits) @@ Opt("retrievedReferences", top))

rS3a == Ref(Loc(S3(JStr("s3://a", 6)), Absent), Text(JStr("ta", 5)))

rS3b == Ref(Loc(S3(JStr("s3://b", 6)), Absent), Text(JStr("tb", 601)))

rWeb == Ref(Loc(Absent, Web(JStr("http://w", 8))), Text(JStr("tw", 700)))

rBoth == Ref(Loc(S3(JStr("s3://c", 6)), Web(JStr("http://c", 8))), Text(JStr("tc", 600)))

rNoUri == Ref(Absent, Text(JStr("tn", 3)))

rEmptyS3 == Ref(Loc(S3(EmptyStr), Web(JStr("http://e", 8))), Absent)

\* values of an unexpected type
Bad == {JNull, JStr("x", 1), JNum(5)}

BadText == {JNull, JNum(5)}

\* references with one field null or of an unexpected type
MalRefs ==
    Bad
    \cup {Ref(b, Text(JStr("t", 4))) : b \in Bad}
    \cup {Ref(Loc(b, w), Text(JStr("t", 4))) :
             b \in Bad, w \in {Absent, Web(JStr("http://w", 8))}}
    \cup {Ref(Loc(s, b), Text(JStr("t", 4))) :
             b \in Bad, s \in {Absent, S3(JStr("s3://a", 6))}}
    \cup {Ref(Loc(S3(u), Web(JStr("http://w", 8))), Text(JStr("t", 4))) :
             u \in {JNull, JNum(5)}}
    \cup {Ref(l, b) : b \in Bad, l \in {Absent, Loc(S3(JStr("s3://a", 6)), Absent)}}
    \cup {Ref(l, Text(b)) : b \in BadText, l \in {Absent, Loc(S3(JStr("s3://a", 6)), Absent)}}

\* a list-valued field that is null, of an unexpected type, or holds a
\* malformed reference
MalRefLists ==
    Bad \cup {EmptyStr, EmptyDict} \cup {JList(<<r>>) : r \in MalRefs}

BadList == Bad \cup {EmptyStr, EmptyDict}

BadDict == Bad \cup {EmptyStr, EmptyList}

RefListsA == {Absent, JList(<<rS3b>>), JList(<<rNoUri, rBoth>>)}

PartsA ==
    { Absent,
      GP(<<Prov(JList(<<rS3a, rWeb>>)), Prov(JList(<<rBoth, rS3b>>))>>),
      GP(<<Prov(JList(<<rNoUri, rWeb>>))>>) }

RecordsA == {Rec(g, r) : g \in PartsA, r \in RefListsA}

TopsA == {Absent, EmptyList, JList(<<rWeb>>), JList(<<rNoUri, rS3a, rEmptyS3>>)}

\* citation records per response
MaxRecords == 2

RECURSIVE SeqsUpTo(_, _)
SeqsUpTo(S, n) ==
    IF n = 0 THEN {<<>>}
    ELSE LET shorter == SeqsUpTo(S, n - 1)
         IN  shorter \cup {Append(s, x) : s \in shorter, x \in S}

\* well-formed responses of every shape
ResponsesA ==
    {Resp(c, t) :
        c \in {Absent} \cup {JList(s) : s \in SeqsUpTo(RecordsA, MaxRecords)},
        t \in TopsA}

\* a field that is absent or empty
SparseList == {Absent, EmptyList}

SparseDict == {Absent, EmptyDict}

\* responses with one point absent, empty, null, of an unexpected type or
\* malformed: in a nested list, a flat list, the top-level list (with and
\* without citations found before it), and at every level above the lists
ResponsesB ==
    {Resp(JList(<<Rec(GP(<<Prov(l)>>), Absent)>>), Absent) : l \in MalRefLists \cup SparseList}
    \cup {Resp(JList(<<Rec(Absent, l)>>), Absent) : l \in MalRefLists \cup SparseList}
    \cup {Resp(Absent, l) : l \in MalRefLists}
    \cup {Resp(JList(<<Rec(Absent, JList(<<rS3a>>))>>), l) : l \in MalRefLists}
    \cup {Resp(JList(<<Rec(JDict(Opt("citations", b)), Absent)>>), Absent) :
             b \in BadList \cup SparseList}
    \cup {Resp(JList(<<Rec(b, JList(<<rWeb>>))>>), Absent) : b \in BadDict \cup SparseDict}
    \cup {Resp(JList(<<Rec(GP(<<b>>), Absent)>>), Absent) : b \in BadDict \cup {EmptyDict}}
    \cup {Resp(JList(<<b>>), Absent) : b \in BadDict \cup {EmptyDict}}
    \cup {Resp(b, Absent) : b \in BadList}

Responses == ResponsesA \cup ResponsesB

CitInit ==
    /\ cit_in = EmptyDict
    /\ cit_out = Appended(<<>>)
    /\ cit_done = FALSE

\* citations = _extract_citations(rag)
ExtractCitations ==
    /\ ~cit_done
    /\ \E rag \in Responses :
          /\ cit_in' = rag
          /\ cit_out' = _extract_citations(rag)
    /\ cit_done' = TRUE

cit_vars == <<cit_in, cit_out, cit_done>>

\* --- the claims about the extractor, stated on the response itself ---

\* the field k of x, JNull where x is no dict or does not hold k
Field(x, k) == IF x.t = "dict" /\ k \in DOMAIN x.v THEN x.v[k] ELSE JNull

\* the elements of x, none where x is no list
Elems(x) == IF x.t = "list" THEN x.v ELSE <<>>

S3Uri(ref) == Field(Field(Field(ref, "location"), "s3Location"), "uri")

WebUrl(ref) == Field(Field(Field(ref, "location"), "webLocation"), "url")

BearsUri(ref) == Truthy(S3Uri(ref)) \/ Truthy(WebUrl(ref))

\* the citation of a URI-bearing reference: the s3 location before the web
\* location, the text cut to 600 characters
CiteOf(ref) ==
    LET text == Field(Field(ref, "content"), "text")
    IN  [uri     |-> IF Truthy(S3Uri(ref)) THEN S3Uri(ref) ELSE WebUrl(ref),
         snippet |-> IF text.t # "str" THEN EmptyStr
                     ELSE JStr(text.v, IF text.n <= 600 THEN text.n ELSE 600)]

\* the citations of the URI-bearing references of a list, in order
UriCites(refs) ==
    LET bearing == SelectSeq(Elems(refs), BearsUri)
    IN  [i \in 1..Len(bearing) |-> CiteOf(bearing[i])]

RECURSIVE Flatten(_)
Flatten(seqs) ==
    IF seqs = <<>> THEN <<>> ELSE Head(seqs) \o Flatten(Tail(seqs))

\* per record: the nested generated-part references, then the flat ones
RecordCites(c) ==
    LET provs == Elems(Field(Field(c, "generatedResponsePart"), "citations"))
    IN  Flatten([j \in 1..Len(provs) |-> UriCites(Field(provs[j], "retrievedReferences"))])
        \o UriCites(Field(c, "retrievedReferences"))

Accumulated(rag) ==
    LET records == Elems(Field(rag, "citations"))
    IN  Flatten([i \in 1..Len(records) |-> RecordCites(records[i])])

Found(rag) ==
    IF Accumulated(rag) # <<>> THEN Accumulated(rag)
    ELSE UriCites(Field(rag, "retrievedReferences"))

\* C8: whenever _extract_citations returns, it returns the first 8 (at most)
\* of: per citation record in order, the URI-bearing nested generated-part
\* references then the URI-bearing flat references; the top-level list is used
\* if and only if that accumulation is empty; every entry has a non-empty uri
\* (s3 before web) and a snippet of at most 600 characters.
C8_CitationsAsSpecified ==
    (cit_done /\ ~cit_out.exc) =>
        /\ Len(cit_out.cites) <= 8
        /\ Len(cit_out.cites) = (IF Len(Found(cit_in)) <= 8 THEN Len(Found(cit_in)) ELSE 8)
        /\ \A i \in 1..Len(cit_out.cites) :
              /\ cit_out.cites[i] = Found(cit_in)[i]
              /\ Truthy(cit_out.cites[i].uri)
              /\ cit_out.cites[i].snippet.n <= 600

\* C8 witnesses: more than 8 citations were found and 8 returned
C8_WitnessCapped ==
    cit_done /\ ~cit_out.exc /\ Len(Accumulated(cit_in)) > 8 /\ Len(cit_out.cites) = 8

\* C9: _extract_citations never raises, whatever field of the response is
\* absent, null or of an unexpected type: it returns a citation list.
C9_NeverRaises == cit_done => ~cit_out.exc

\* ------------------------------------------------------------------------
\* MultipartDecoder: attraction-scanner.py, parse_multipart
\* A body is a sequence of bytes. A header line of a part is one element of
\* the sequence, standing for the bytes of that line (which hold no CR, LF or
\* delimiter); HeaderTable gives what the code's tests and regular
\* expressions read from the line.
\* ------------------------------------------------------------------------

CRLF == <<"\r", "\n">>

HDispLang == "Content-Disposition: form-data; name=\"lang\""

HDispPersona == "Content-Disposition: form-data; name=\"persona\""

HDispFileField == "Content-Disposition: form-data; name=\"file\""

HDispFile == "Content-Disposition: form-data; name=\"file\"; filename=\"a.png\""

HDispPhoto == "Content-Disposition: form-data; name=\"photo\"; filename=\"b.jpg\""

HCtypePng == "Content-Type: image/png"

HCtypeJpeg == "Content-Type: image/jpeg"

HCtypeGif == "Content-Type: image/gif"

\* per header line: whether L.startswith("content-disposition:") or
\* L.startswith("content-type:"), group(1) of name="([^"]+)" and of
\* filename="([^"]+)" ("" for no match), and line.split(":", 1)[1].strip()
HeaderTable ==
    (HDispLang :> [kind |-> "disp", name |-> "lang", filename |-> "", value |-> ""])
    @@ (HDispPersona :> [kind |-> "disp", name |-> "persona", filename |-> "", value |-> ""])
    @@ (HDispFileField :> [kind |-> "disp", name |-> "file", filename |-> "", value |-> ""])
    @@ (HDispFile :> [kind |-> "disp", name |-> "file", filename |-> "a.png", value |-> ""])
    @@ (HDispPhoto :> [kind |-> "disp", name |-> "photo", filename |-> "b.jpg", value |-> ""])
    @@ (HCtypePng :> [kind |-> "ctype", name |-> "", filename |-> "", value |-> "image/png"])
    @@ (HCtypeJpeg :> [kind |-> "ctype", name |-> "", filename |-> "", value |-> "image/jpeg"])
    @@ (HCtypeGif :> [kind |-> "ctype", name |-> "", filename |-> "", value |-> "image/gif"])

\* what a line of raw_headers is read as; other lines are ignored
LineInfo(line) ==
    IF line # <<>> /\ line[1] \in DOMAIN HeaderTable
    THEN HeaderTable[line[1]]
    ELSE [kind |-> "other", name |-> "", filename |-> "", value |-> ""]

\* s.split(sep), scanning from index i
RECURSIVE SplitFrom(_, _, _)
SplitFrom(s, sep, i) ==
    LET at == Find(sep, s, i)
    IN  IF at = 0 THEN <<Slice(s, i, Len(s))>>
        ELSE <<Slice(s, i, at - 1)>> \o SplitFrom(s, sep, at + Len(sep))

Split(s, sep) == SplitFrom(s, sep, 1)

\* a byte that is no valid UTF-8 on its own
InvalidByte == "0xFF"

\* data.decode("utf-8", "ignore")
Decode(bytes) == SelectSeq(bytes, LAMBDA c : c # InvalidByte)

BoundaryKey == <<"b","o","u","n","d","a","r","y","=">>

\* re.search(r'boundary="?([^";]+)"?', content_type, re.IGNORECASE): group(1)
\* of the leftmost match, <<>> for no match
BoundaryOf(content_type) ==
    LET low  == Lower(content_type)
        stop == {"\"", ";"}
        \* the group starts at g when "boundary=" ends right before g, or
        \* before a quote right before g, and a character of the group is at g
        groups == {g \in 1..Len(low) :
                     /\ low[g] \notin stop
                     /\ \/ MatchAt(BoundaryKey, low, g - Len(BoundaryKey))
                        \/ /\ g > 1
                           /\ low[g - 1] = "\""
                           /\ MatchAt(BoundaryKey, low, g - 1 - Len(BoundaryKey))}
    IN  IF groups = {} THEN <<>>
        ELSE Slice(content_type, MinOf(groups), SkipCharsNot(content_type, MinOf(groups), stop) - 1)

DefaultCtype == "application/octet-stream"

\* the entries of parse_multipart's result
TextEntry(chars) == [kind |-> "text", filename |-> "", content_type |-> "", content |-> chars]

FileEntry(filename, ctype, data) ==
    [kind |-> "file", filename |-> filename, content_type |-> ctype, content |-> data]

\* the last line of raw_headers of the given kind, <<>> if none
RECURSIVE LastOfKind(_, _, _)
LastOfKind(lines, kind, i) ==
    IF i = 0 THEN <<>>
    ELSE IF LineInfo(lines[i]).kind = kind THEN lines[i]
    ELSE LastOfKind(lines, kind, i - 1)

\* file-bearing segments are stored under this key
FileKey == "file"

\* out[...] = ... for a file-bearing segment
StoreFile(out, name, entry) == (FileKey :> entry) @@ out

\* one pass of "for ch in chunks:": the result dict after the chunk
ChunkStep(out, chunk, end_delimiter) ==
    LET ch     == Strip(chunk)
        h_end  == Find(CRLF \o CRLF, ch, 1)
        lines  == Split(Decode(Slice(ch, 1, h_end - 1)), CRLF)
        data   == RStripChars(Slice(ch, h_end + 4, Len(ch)), {"\r", "\n"})
        disp   == LastOfKind(lines, "disp", Len(lines))
        ctype  == LastOfKind(lines, "ctype", Len(lines))
        name   == LineInfo(disp).name
        fname  == LineInfo(disp).filename
    IN  IF ch = <<>> \/ ch = <<"-", "-">> \/ ch = end_delimiter THEN out
        ELSE IF h_end = 0 THEN out
        ELSE IF disp = <<>> THEN out
        ELSE IF name = "" /\ fname = "" THEN out
        ELSE IF fname # ""
        THEN StoreFile(out, name,
                       FileEntry(fname,
                                 IF ctype = <<>> \/ LineInfo(ctype).value = ""
                                 THEN DefaultCtype ELSE LineInfo(ctype).value,
                                 data))
        ELSE (name :> TextEntry(Decode(data))) @@ out

RECURSIVE ChunkSteps(_, _, _, _)
ChunkSteps(out, chunks, i, end_delimiter) ==
    IF i > Len(chunks) THEN out
    ELSE ChunkSteps(ChunkStep(out, chunks[i], end_delimiter), chunks, i + 1, end_delimiter)

\* parse_multipart(body, content_type): ValueError when no boundary is found
parse_multipart(body, content_type) ==
    LET boundary  == BoundaryOf(content_type)
        delimiter == <<"-", "-">> \o boundary
    IN  IF boundary = <<>> THEN [exc |-> TRUE, out |-> <<>>]
        ELSE [exc |-> FALSE,
              out |-> ChunkSteps(<<>>, Split(body, delimiter), 1,
                                 delimiter \o <<"-", "-">>)]

\* --- request bodies ---

\* a part as a client writes it: delimiter, header lines, blank line, data
PartBytes(delimiter, headers, data) ==
    delimiter \o CRLF
    \o Flatten([i \in 1..Len(headers) |-> <<headers[i]>> \o CRLF])
    \o CRLF \o data \o CRLF

BodyOf(delimiter, parts) ==
    Flatten([i \in 1..Len(parts) |-> PartBytes(delimiter, parts[i].headers, parts[i].data)])
    \o delimiter \o <<"-", "-">> \o CRLF

CtMultipart == <<"m","u","l","t","i","p","a","r","t","/","f","o","r","m","-","d","a","t","a",";"," ","b","o","u","n","d","a","r","y","=","b">>

Delim == <<"-", "-", "b">>

\* file bytes: up to MaxContentLen bytes, among them whitespace, CR, LF and
\* the bytes of the delimiter
MaxContentLen == 4

ContentBytes == {"\r", "\n", " ", "-", "b", "x"}

FileContents == SeqsUpTo(ContentBytes, MaxContentLen)

LangPart == [headers |-> <<HDispLang>>, data |-> <<"e", "n">>]

FilePart(content) == [headers |-> <<HDispFile, HCtypePng>>, data |-> content]

MpInit ==
    /\ mp_parts = <<>>
    /\ mp_body = <<>>
    /\ mp_out = [exc |-> FALSE, out |-> <<>>]
    /\ mp_done = FALSE

\* fields = parse_multipart(body_bytes, content_type) on a two-part body: the
\* text field lang, then one file part
ParseUpload ==
    /\ ~mp_done
    /\ \E content \in FileContents :
          /\ mp_parts' = <<LangPart, FilePart(content)>>
          /\ mp_body' = BodyOf(Delim, <<LangPart, FilePart(content)>>)
          /\ mp_out' = parse_multipart(BodyOf(Delim, <<LangPart, FilePart(content)>>), CtMultipart)
    /\ mp_done' = TRUE

\* segments of an upload: text fields, among them one named "file", and
\* file-bearing segments under two field names
PhotoPart == [headers |-> <<HDispPhoto, HCtypeJpeg>>, data |-> <<"y">>]

FileFieldPart == [headers |-> <<HDispFileField>>, data |-> <<"z">>]

PersonaPart == [headers |-> <<HDispPersona>>, data |-> Friendly]

Segments == {LangPart, PersonaPart, FilePart(<<"x">>), PhotoPart, FileFieldPart}

MaxSegments == 3

\* fields = parse_multipart(body_bytes, content_type) on a body of up to
\* MaxSegments segments in any order
ParseSegments ==
    /\ ~mp_done
    /\ \E parts \in SeqsUpTo(Segments, MaxSegments) :
          /\ mp_parts' = parts
          /\ mp_body' = BodyOf(Delim, parts)
          /\ mp_out' = parse_multipart(BodyOf(Delim, parts), CtMultipart)
    /\ mp_done' = TRUE

mp_vars == <<mp_parts, mp_body, mp_out, mp_done>>

\* C4: for a well-formed two-part body (field lang, then a file part with
\* filename and Content-Type) whose file bytes do not contain CRLF followed by
\* the delimiter, the file content parse_multipart returns equals, byte for
\* byte, the bytes placed between the part's blank line and the CRLF before
\* the next delimiter.
C4_FileContentExact ==
    (/\ mp_done
     /\ Len(mp_parts) = 2
     /\ mp_parts[1] = LangPart
     /\ mp_parts[2].headers = <<HDispFile, HCtypePng>>
     /\ ~Contains(mp_parts[2].data, CRLF \o Delim)) =>
        /\ ~mp_out.exc
        /\ FileKey \in DOMAIN mp_out.out
        /\ mp_out.out[FileKey].kind = "file"
        /\ mp_out.out[FileKey].content = mp_parts[2].data

\* whether a segment is file-bearing: its disposition carries a filename
IsFileSegment(part) ==
    \E i \in 1..Len(part.headers) : LineInfo(<<part.headers[i]>>).filename # ""

\* the index of the last file-bearing segment, 0 if there is none
RECURSIVE LastFileSegment(_, _)
LastFileSegment(parts, i) ==
    IF i = 0 THEN 0
    ELSE IF IsFileSegment(parts[i]) THEN i
    ELSE LastFileSegment(parts, i - 1)

\* the file record a file-bearing segment stands for
FileRecordOf(part) ==
    FileEntry(LineInfo(<<part.headers[1]>>).filename,
              LineInfo(<<part.headers[2]>>).value,
              part.data)

\* C11: after parse_multipart has processed a sequence of segments, the
\* "file" entry of its result is absent when no segment is file-bearing, and
\* otherwise is the file record of the last file-bearing segment: no text
\* field, whatever its name, replaces or removes it. Stated for segments
\* whose data is a single plain byte, which the decoder returns unchanged.
C11_FileEntryIsLastFilePart ==
    (mp_done /\ ~mp_out.exc /\ \A i \in 1..Len(mp_parts) : mp_parts[i] \in Segments) =>
        LET last == LastFileSegment(mp_parts, Len(mp_parts))
        IN  IF last = 0
            THEN FileKey \notin DOMAIN mp_out.out \/ mp_out.out[FileKey].kind = "file"
            ELSE /\ FileKey \in DOMAIN mp_out.out
                 /\ mp_out.out[FileKey] = FileRecordOf(mp_parts[last])

\* ------------------------------------------------------------------------
\* AnswerPipeline: lambda_function.py, lambda_handler and its helpers
\* ------------------------------------------------------------------------

\* the variables of the single components, which the handlers leave alone
comp_vars == <<san_vars, tmp_vars, res_vars, cit_vars, mp_vars>>

StartsWith(s, p) == MatchAt(p, s, 1)

LangRu == <<"r","u">>

LangKk == <<"k","k">>

LangEn == <<"e","n">>

\* the handlers' responses (_resp): the status code and the payload fields
\* the claims read
Response(status, error, answer, detections) ==
    [status |-> status, error |-> error, answer |-> answer, detections |-> detections]

NoResponse == Response(0, "", <<>>, <<>>)

\* the request data when the body is no JSON object: _parse_event returns {}
NoData == [text |-> PyNone, lang |-> PyNone, persona |-> PyNone]

\* _parse_event(event): the body's JSON object, {} when json.loads fails
_parse_event(event) == IF event.bodyOk THEN event.data ELSE NoData

\* the outcome of a collaborator call: it raised, or it returned
CallRaised == [kind |-> "raise", text |-> PyNone, rag |-> EmptyDict]

CallReturned(text, rag) == [kind |-> "ok", text |-> text, rag |-> rag]

NotCalled == [kind |-> "notcalled", text |-> PyNone, rag |-> EmptyDict]

\* _translate_from_ru(text, target_lang) given the outcome of
\* translate.translate_text: resp.get("TranslatedText", "").strip() or text;
\* an exception of the call is not caught here
_translate_from_ru(text, target_lang, outcome) ==
    IF outcome.kind = "raise" THEN [exc |-> TRUE, v |-> <<>>]
    ELSE LET translated == Strip(OrEmpty(outcome.text))
         IN  [exc |-> FALSE, v |-> IF translated # <<>> THEN translated ELSE text]

\* the locals of a handler invocation
NoLocals ==
    [text |-> <<>>, lang |-> <<>>, persona |-> <<>>, temp_used |-> 0,
     cleaned_ru |-> <<>>, file |-> <<>>]

\* lines 280-291: the citations, then the 200 response; any exception is
\* caught by the handler's except clauses and answered 500
TextFinish(final_answer, rag) ==
    IF _extract_citations(rag).exc
    THEN Response(500, "inference_failed", <<>>, <<>>)
    ELSE Response(200, "", final_answer, <<>>)

TextEvents ==
    {[bodyOk |-> ok, data |-> [text |-> t, lang |-> l, persona |-> p]] :
        ok \in BOOLEAN,
        t \in {PyNone, <<" ">>, <<"q"," ">>, <<"w","h","a","t">>},
        l \in {PyNone, <<"r","u">>, <<" ","E","N"," ">>, <<"k","k","-","K","Z">>, <<"d","e">>},
        p \in {PyNone, Formal, <<"H","U","M","O","R","O","U","S">>}}

\* what retrieve_and_generate returns: the output text (None when the
\* response has none) beside the citation structure
GenOutcomes ==
    {CallRaised}
    \cup {CallReturned(t, r) :
            t \in {PyNone, <<"<","o","u","t",">","A","<","/","o","u","t",">">>, <<"A","\n","N","o","t","e",":"," ","x">>, <<"#","n","o","t","e",":">>},
            r \in {Resp(Absent, Absent),
                   Resp(JList(<<Rec(Absent, JList(<<rS3a>>))>>), Absent),
                   Resp(JNull, Absent)}}

\* what translate_text returns: TranslatedText (None when absent)
TranslateOutcomes ==
    {CallRaised}
    \cup {CallReturned(t, EmptyDict) : t \in {PyNone, <<>>, <<" ">>, <<"B">>}}

\* lambda_handler up to the generation call (lines 259-269)
TextReceive ==
    /\ h_pc = "idle"
    /\ \E event \in TextEvents :
          LET data       == _parse_event(event)
              text       == Strip(OrEmpty(data.text))
              lang       == Lower(Strip(IF OrEmpty(data.lang) = <<>> THEN LangRu ELSE data.lang))
              persona_in == _persona_or_default(data.persona)
          IN  /\ h_path' = "text"
              /\ h_event' = event
              /\ IF text = <<>>
                 THEN /\ h_resp' = Response(400, "bad_request", <<>>, <<>>)
                      /\ h_pc' = "done"
                      /\ h_loc' = h_loc
                 ELSE /\ h_loc' = [NoLocals EXCEPT !.text = text, !.lang = lang,
                                      !.persona = persona_in,
                                      !.temp_used = _persona_temperature(BASE_TEMP, persona_in)]
                      /\ h_pc' = "generate"
                      /\ h_resp' = h_resp
    /\ UNCHANGED <<h_gen, h_tr, h_cls, LANDMARKS, DRY_RUN, comp_vars>>

\* the generation call and what follows it up to the translation call, or to
\* the response when no translation is asked for (lines 271-278)
TextGenerate ==
    /\ h_pc = "generate"
    /\ \E g \in GenOutcomes :
          LET cleaned_ru == _final_sanitize(OrEmpty(g.text))
          IN  /\ h_gen' = g
              /\ IF g.kind = "raise"
                 THEN /\ h_resp' = Response(500, "inference_failed", <<>>, <<>>)
                      /\ h_pc' = "done"
                      /\ h_loc' = h_loc
                 ELSE IF StartsWith(h_loc.lang, LangKk) \/ StartsWith(h_loc.lang, LangEn)
                 THEN /\ h_loc' = [h_loc EXCEPT !.cleaned_ru = cleaned_ru]
                      /\ h_pc' = "translate"
                      /\ h_resp' = h_resp
                 ELSE /\ h_loc' = [h_loc EXCEPT !.cleaned_ru = cleaned_ru]
                      /\ h_resp' = TextFinish(cleaned_ru, g.rag)
                      /\ h_pc' = "done"
    /\ UNCHANGED <<h_path, h_event, h_tr, h_cls, LANDMARKS, DRY_RUN, comp_vars>>

\* the translation call and the rest of the handler (lines 276-296)
TextTranslate ==
    /\ h_pc = "translate"
    /\ \E t \in TranslateOutcomes :
          LET final_answer == _translate_from_ru(h_loc.cleaned_ru, h_loc.lang, t)
          IN  /\ h_tr' = t
              /\ h_resp' = IF final_answer.exc
                           THEN Response(500, "inference_failed", <<>>, <<>>)
                           ELSE TextFinish(final_answer.v, h_gen.rag)
              /\ h_pc' = "done"
    /\ UNCHANGED <<h_path, h_event, h_loc, h_gen, h_cls, LANDMARKS, DRY_RUN, comp_vars>>

\* ------------------------------------------------------------------------
\* ScanPipeline: attraction-scanner.py, lambda_handler
\* ------------------------------------------------------------------------

MAX_BYTES == 5 * 1024 * 1024

ALLOWED_MIME == {"image/jpeg", "image/png"}

MultipartType == <<"m","u","l","t","i","p","a","r","t","/","f","o","r","m","-","d","a","t","a">>

\* fields.get(key): the entry, an empty text entry standing for None
FieldOf(fields, key) ==
    IF key \in DOMAIN fields THEN fields[key] ELSE TextEntry(<<>>)

\* (fields.get(key) or default).lower()
FieldOr(fields, key, default) ==
    Lower(IF FieldOf(fields, key).content = <<>> THEN default ELSE FieldOf(fields, key).content)

\* the three 200 responses of the handler (lines 69-89); localized_name
\* falls back to the id, the only field a catalog entry has here
ScanRespond(det) ==
    IF det.kind # "det" THEN Response(200, "", <<"n","o","_","o","b","j","e","c","t">>, <<>>)
    ELSE IF det.confidence < 70
    THEN Response(200, "", <<"t","r","y","_","c","l","o","s","e","r">>, <<[id |-> det.id, confidence |-> det.confidence]>>)
    ELSE Response(200, "", <<"s","u","c","c","e","s","s">>, <<[id |-> det.id, confidence |-> det.confidence]>>)

\* lines 28-52: the response that ends the request before classification,
\* NoResponse when every check passes
ScanReject(event) ==
    LET ct     == event.content_type
        fields == parse_multipart(event.body.bytes, ct)
        file   == FieldOf(fields.out, FileKey)
    IN  IF ~event.isBase64Encoded THEN Response(400, "Body must be base64", <<>>, <<>>)
        ELSE IF ct = PyNone \/ ct = <<>> \/ ~Contains(ct, MultipartType)
        THEN Response(400, "Expected multipart/form-data", <<>>, <<>>)
        ELSE IF event.body.kind # "ok" THEN Response(500, "Internal error", <<>>, <<>>)
        ELSE IF fields.exc THEN Response(500, "Internal error", <<>>, <<>>)
        ELSE IF file.kind = "text" /\ file.content = <<>>
        THEN Response(400, "file is required", <<>>, <<>>)
        ELSE IF file.kind = "text" THEN Response(500, "Internal error", <<>>, <<>>)
        ELSE IF Len(file.content) > MAX_BYTES THEN Response(413, "File too large", <<>>, <<>>)
        ELSE IF file.content_type \notin ALLOWED_MIME
        THEN Response(415, "Unsupported media type", <<>>, <<>>)
        ELSE NoResponse

CtQuoted == <<"m","u","l","t","i","p","a","r","t","/","f","o","r","m","-","d","a","t","a",";"," ","b","o","u","n","d","a","r","y","=","\"","b","\"">>

ContentTypes == {PyNone, <<"a","p","p","l","i","c","a","t","i","o","n","/","j","s","o","n">>, MultipartType, CtMultipart, CtQuoted}

UploadBodies ==
    { BodyOf(Delim, <<LangPart, FilePart(<<"x">>)>>),
      BodyOf(Delim, <<FilePart(<<"x", "x">>), [headers |-> <<HDispPersona>>, data |-> Friendly]>>),
      BodyOf(Delim, <<[headers |-> <<HDispPhoto, HCtypeJpeg>>, data |-> <<"x">>]>>),
      BodyOf(Delim, <<[headers |-> <<HDispFile, HCtypeGif>>, data |-> <<"x">>]>>),
      BodyOf(Delim, <<[headers |-> <<HDispFile>>, data |-> <<"x">>]>>),
      BodyOf(Delim, <<[headers |-> <<HDispFileField>>, data |-> <<"x">>]>>),
      BodyOf(Delim, <<LangPart>>) }

\* event["body"]: missing (KeyError), not decodable (binascii.Error), or the
\* base64 of the bytes
ScanBodies ==
    {[kind |-> k, bytes |-> <<>>] : k \in {"missing", "undecodable"}}
    \cup {[kind |-> "ok", bytes |-> b] : b \in UploadBodies}

ScanEvents ==
    {[isBase64Encoded |-> e, content_type |-> ct, body |-> b] :
        e \in BOOLEAN, ct \in ContentTypes, b \in ScanBodies}

\* lambda_handler up to the classification call, or to the response when a
\* check fails or DRY_RUN is set (lines 25-59)
ScanReceive ==
    /\ h_pc = "idle"
    /\ \E event \in ScanEvents :
          LET fields == parse_multipart(event.body.bytes, event.content_type).out
          IN  /\ h_path' = "scan"
              /\ h_event' = event
              /\ IF ScanReject(event) # NoResponse
                 THEN /\ h_resp' = ScanReject(event)
                      /\ h_pc' = "done"
                      /\ h_loc' = h_loc
                 ELSE /\ h_loc' = [NoLocals EXCEPT
                                      !.lang = FieldOr(fields, "lang", LangRu),
                                      !.persona = FieldOr(fields, "persona", Formal),
                                      !.file = fields[FileKey]]
                      /\ IF DRY_RUN
                         THEN /\ h_resp' = ScanRespond(IF LANDMARKS # <<>>
                                                       THEN Detection(LANDMARKS[1].id, 92)
                                                       ELSE NoDetection)
                              /\ h_pc' = "done"
                         ELSE /\ h_resp' = h_resp
                              /\ h_pc' = "classify"
    /\ UNCHANGED <<h_gen, h_tr, h_cls, LANDMARKS, DRY_RUN, comp_vars>>

ScanReplies ==
    {[kind |-> k, id |-> <<>>, confidence |-> 0] : k \in {"raise", "nojson", "badconf"}}
    \cup {[kind |-> "json", id |-> r, confidence |-> c] :
             r \in {<<"b","a","y","t","e","r","e","k">>, <<"k","h","a","n"," ","t","o","w","e","r">>, <<"n","o","n","e">>, <<"z","o","o">>}, c \in {69, 70}}

\* the classification call and the rest of the handler (lines 61-89): an
\* exception of classify_with_llama is caught and det is None
ScanClassify ==
    /\ h_pc = "classify"
    /\ \E reply \in ScanReplies :
          \E outcome \in ClassifyOutcomes(LANDMARKS, reply) :
              /\ h_cls' = IF LANDMARKS = <<>> THEN NotCalled
                          ELSE [kind |-> reply.kind, text |-> reply.id, rag |-> EmptyDict]
              /\ h_resp' = ScanRespond(IF outcome = Raised THEN NoDetection ELSE outcome)
              /\ h_pc' = "done"
    /\ UNCHANGED <<h_path, h_event, h_loc, h_gen, h_tr, LANDMARKS, DRY_RUN, comp_vars>>

\* the state after module load: LANDMARKS_JSON and DRY_RUN are read once
HandlerInit ==
    /\ h_pc = "idle"
    /\ h_path = "none"
    /\ h_event = <<>>
    /\ h_loc = NoLocals
    /\ h_gen = NotCalled
    /\ h_tr = NotCalled
    /\ h_cls = NotCalled
    /\ h_resp = NoResponse
    /\ LANDMARKS \in {<<>>, <<[id |-> <<"b","a","y","t","e","r","e","k">>]>>, <<[id |-> <<"k","h","a","n">>], [id |-> <<"t","o","w","e","r">>]>>}
    /\ DRY_RUN \in BOOLEAN

\* the handlers idle, as in the specifications of the single components
HandlerIdle ==
    /\ HandlerInit
    /\ LANDMARKS = <<>>
    /\ DRY_RUN = FALSE

h_vars == <<h_pc, h_path, h_event, h_loc, h_gen, h_tr, h_cls, h_resp, LANDMARKS, DRY_RUN>>

\* C1: in the text path, for a request with non-empty text and lang starting
\* with kk or en whose generation call succeeded (and whose citations can be
\* extracted), a translation that raises or returns nothing still ends in a
\* 200 response whose answer is the untranslated sanitized text.
C1_TranslationFailureDegrades ==
    (/\ h_pc = "done"
     /\ h_path = "text"
     /\ h_gen.kind = "ok"
     /\ ~_extract_citations(h_gen.rag).exc
     /\ \/ h_tr.kind = "raise"
        \/ h_tr.kind = "ok" /\ Strip(OrEmpty(h_tr.text)) = <<>>)
    => /\ h_resp.status = 200
       /\ h_resp.answer = h_loc.cleaned_ru

\* the request envelope of the vision path is malformed: the body is not
\* declared base64, the content type is not multipart/form-data, or it
\* carries no boundary token
MalformedEnvelope(event) ==
    \/ ~event.isBase64Encoded
    \/ event.content_type = PyNone
    \/ ~Contains(event.content_type, MultipartType)
    \/ ~Contains(Lower(event.content_type), BoundaryKey)

\* C2: in the vision path every malformed request envelope is answered with a
\* 4xx status, never a 5xx.
C2_MalformedEnvelopeIs4xx ==
    (h_pc = "done" /\ h_path = "scan" /\ MalformedEnvelope(h_event))
    => (400 <= h_resp.status /\ h_resp.status <= 499)

\* C3: when the generation collaborator (text path) or the classification
\* collaborator (vision path) raises, the response is 5xx; it is never a 200
\* response with an empty detection list.
C3_CollaboratorFailureIs5xx ==
    (h_pc = "done" /\ (h_gen.kind = "raise" \/ h_cls.kind = "raise"))
    => (500 <= h_resp.status /\ h_resp.status <= 599)

\* ------------------------------------------------------------------------
\* Specifications: one per component; the other components stay idle
\* ------------------------------------------------------------------------

vars == <<comp_vars, h_vars>>

\* the components idle
Idle ==
    /\ SanInit
    /\ TempInit
    /\ ResInit
    /\ CitInit
    /\ MpInit

Init == Idle /\ HandlerIdle

SanNext == Sanitize /\ UNCHANGED <<tmp_vars, res_vars, cit_vars, mp_vars, h_vars>>

TempNext == Temperature /\ UNCHANGED <<san_vars, res_vars, cit_vars, mp_vars, h_vars>>

ResNext == Classify /\ UNCHANGED <<san_vars, tmp_vars, cit_vars, mp_vars, h_vars>>

CitNext == ExtractCitations /\ UNCHANGED <<san_vars, tmp_vars, res_vars, mp_vars, h_vars>>

MpNext ==
    \/ ParseUpload /\ UNCHANGED <<san_vars, tmp_vars, res_vars, cit_vars, h_vars>>
    \/ ParseSegments /\ UNCHANGED <<san_vars, tmp_vars, res_vars, cit_vars, h_vars>>

\* one request, handled by one of the two handlers
Next ==
    \/ TextReceive
    \/ TextGenerate
    \/ TextTranslate
    \/ ScanReceive
    \/ ScanClassify

\* the process after module load, whatever its configuration
Start == Idle /\ HandlerInit

Spec == Start /\ [][Next]_vars

SpecSanitize == Init /\ [][SanNext]_vars

SpecTemp == Init /\ [][TempNext]_vars

SpecResolve == Init /\ [][ResNext]_vars

SpecCite == Init /\ [][CitNext]_vars

SpecMultipart == Init /\ [][MpNext]_vars

====
